---- MODULE Spec2Model ----
(***************************************************************************)
(* Model of src/src/transmitter.c: the timer-driven packet transmission    *)
(* scheduler (add_packet_timer, rx_events_free_all, tx_main).              *)
(*                                                                         *)
(* A timer handle and its rx_event wrapper are identified by the index of  *)
(* the command they were created for (one timer per command).  The kernel  *)
(* side (timer expiry, epoll readiness) is the environment.                *)
(***************************************************************************)
EXTENDS Integers, Sequences, FiniteSets, TLC

\* ---------------------------------------------------------------- bounds
MaxCmds == 2
MaxRepeat == 2
MaxSends == 4

\* ------------------------------------------------------ program constants
MAX_EVENTS == 10
MIN_INTERVAL_NSEC == 10000

\* tx_main reads cmd->timeout only to fill the itimerspec (ArmParams), so the
\* runs of Spec share one timeout; ArmSpec below varies it.
Timeouts == {1}
Repeats == (-1) .. MaxRepeat
Commands == [timeout : Timeouts, repeat : Repeats]

VARIABLES
  lst,        \* the command list handed to tx_main (timeout, initial repeat)
  repeat,     \* cmd->repeat of every command (mutated by the scheduler)
  pc,         \* position of tx_main
  ci,         \* index of the command cmd_item points at during admission
  efd,        \* the epoll fd: "none", "open", "invalid", "closed"
  efdCloses,  \* number of close(efd) calls on a valid efd
  evsState,   \* the registry object: "none", "live", "freed"
  evs,        \* the registry: sequence of items, each naming its rx_event
  fdst,       \* timer fd of each command: "none", "open", "closed"
  fdCloses,   \* number of close() calls issued on each timer fd
  wrap,       \* rx_event wrapper of each command: "none", "live", "freed"
  wrapFrees,  \* number of free() calls issued on each wrapper
  arm,        \* the itimerspec each timer was armed with (NoArm if not armed)
  live,       \* the timer is armed and will expire (again)
  expired,    \* the timer's expiration counter is non-zero (fd readable)
  epollSet,   \* timer fds registered with efd
  events,     \* the batch returned by the last epoll_wait
  i,          \* index into events (1-based)
  exiting,    \* tx_main's exiting flag
  closing,    \* tx_main's closing flag
  ret,        \* return value of tx_main (NoRet before it returns)
  sends,      \* sylkie_sender_send_packet calls per command, counted up to
              \* MaxSends (MaxSends stands for MaxSends calls or more)
  waited,     \* an epoll_wait call has been made
  drains,     \* number of read() calls on the timer fd in the current dispatch
  retired,    \* commands whose event the dispatch retired (repeat == 0 branch)
  fault       \* the first failing step of the run ("none" if none)

vars == <<lst, repeat, pc, ci, efd, efdCloses, evsState, evs, fdst, fdCloses,
          wrap, wrapFrees, arm, live, expired, epollSet, events, i, exiting,
          closing, ret, sends, waited, drains, retired, fault>>

NoRet == 99
NoArm == [value_sec |-> 0, value_nsec |-> 0, interval_sec |-> 0, interval_nsec |-> 0]

Range(s) == {s[k] : k \in 1 .. Len(s)}
Min(a, b) == IF a < b THEN a ELSE b
Idx == 1 .. Len(lst)

\* ------------------------------------------------- registry (GENERIC_LIST)
\* rx_events_add: append the value as a new item at the tail.
rx_events_add(list, v) == Append(list, v)

\* rx_events_rm: detach the item from the list (the timer is not touched).
rx_events_rm(list, v) == SelectSeq(list, LAMBDA x : x # v)

\* ------------------------------------------------------- add_packet_timer
\* The itimerspec computed from (timeout, repeat), lines 67-102.
ArmParams_NoFloor(timeout, rep) ==
  IF rep = 0 \/ rep = 1
  THEN [value_sec |-> IF timeout >= 0 THEN timeout ELSE 0, value_nsec |-> 1,
        interval_sec |-> 0, interval_nsec |-> 0]
  ELSE [value_sec |-> 0, value_nsec |-> 1,
        interval_sec |-> IF timeout < 0 THEN 0 ELSE timeout,
        interval_nsec |-> IF timeout < 0 THEN MIN_INTERVAL_NSEC ELSE 0]

ArmParams(timeout, rep) ==
  IF rep = 0 \/ rep = 1
  THEN [value_sec |-> IF timeout >= 0 THEN timeout ELSE 0, value_nsec |-> 1,
        interval_sec |-> 0, interval_nsec |-> 0]
  ELSE [value_sec |-> 0, value_nsec |-> 1,
        interval_sec |-> IF timeout <= 0 THEN 0 ELSE timeout,
        interval_nsec |-> IF timeout <= 0 THEN MIN_INTERVAL_NSEC ELSE 0]

\* cmd->repeat after the admission branches, lines 67-102.
AdmitRepeat_NoDecOne(rep) ==
  IF rep = 0 THEN rep
  ELSE IF rep = 1 THEN rep
  ELSE IF rep > 0 THEN rep - 1 ELSE rep

AdmitRepeat_NoDecMany(rep) ==
  IF rep = 0 THEN rep
  ELSE IF rep = 1 THEN rep - 1
  ELSE rep

AdmitRepeat(rep) ==
  IF rep = 0 THEN rep
  ELSE IF rep = 1 THEN rep - 1
  ELSE IF rep > 0 THEN rep - 1 ELSE rep

Periodic(a) == a.interval_sec # 0 \/ a.interval_nsec # 0
Armed(a) == a.value_sec # 0 \/ a.value_nsec # 0

AdmitOutcomes == {"ok", "malloc_fail", "create_fail", "add_fail",
                  "settime_fail", "ctl_fail"}

\* ---------------------------------------------------------------- tx_main
\* The condition of the while loop, line 156.
LoopContinues_NoHead(list, ex) == ex = 0

LoopContinues_MoreThanOne(list, ex) == Len(list) > 1 /\ ex = 0

LoopContinues(list, ex) == list # <<>> /\ ex = 0

\* exiting after epoll_wait reported nfds < 0, lines 158-162.
WaitFailExiting_Unset(ex) == ex

WaitFailExiting(ex) == 1

\* Where the for loop goes after the sender reported err, lines 169-172:
\* exiting is set and the break leaves the for loop.
SendFailExiting_Unset(ex) == ex

SendFailExiting(ex) == 1

\* The counter update after a successful send, lines 173-175.
PostSendRepeat_NeverDec(rep) == rep

PostSendRepeat_DecNonZero(rep) == IF rep # 0 THEN rep - 1 ELSE rep

PostSendRepeat_DecAtZero(rep) == IF rep >= 0 THEN rep - 1 ELSE rep

PostSendRepeat(rep) == IF rep > 0 THEN rep - 1 ELSE rep

\* The firing retires the event, line 175.
Retires(rep) == ~(rep > 0) /\ rep = 0

\* The batches epoll_wait can hand back: the ready fds, each once, in any
\* order, at most MAX_EVENTS of them.
Batches(ready) ==
  LET n == Min(Cardinality(ready), MAX_EVENTS)
  IN {s \in [1 .. n -> ready] : \A a, b \in 1 .. n : a # b => s[a] # s[b]}

NextAdmitPc(k) == IF k <= Len(lst) THEN "admit" ELSE "loop"

\* Lines 147-152: a NULL rx_item aborts the run, otherwise the for loop of
\* line 146 moves on to the next command.
AfterAdmitPc_Ignore(ok, k) == NextAdmitPc(k)

AfterAdmitPc(ok, k) == IF ok THEN NextAdmitPc(k) ELSE "admit_failed"

\* Line 177: the retiring dispatch removes its own item from the registry.
RetireRegistry_Keep(list, v) == list

RetireRegistry_Head(list, v) == Tail(list)

RetireRegistry(list, v) == rx_events_rm(list, v)

\* Line 185 follows the counter update: the drain comes before the close.
AfterCounterPc_SkipDrain == "close"

AfterCounterPc == "drain"

\* exiting after read() on the timer fd reported ret < 0, lines 186-189.
DrainFailExiting_Unset(ex) == ex

DrainFailExiting(ex) == 1

\* Line 193: closing is reset once the handle was closed and freed.
ClosingAfterClose_Kept(cl) == cl

ClosingAfterClose(cl) == 0

\* ------------------------------------------------------------------ Init
Lists == UNION {[1 .. n -> Commands] : n \in 0 .. MaxCmds}

InitRest ==
  /\ repeat = [c \in 1 .. Len(lst) |-> lst[c].repeat]
  /\ pc = "start"
  /\ ci = 1
  /\ efd = "none"
  /\ efdCloses = 0
  /\ evsState = "none"
  /\ evs = <<>>
  /\ fdst = [c \in 1 .. Len(lst) |-> "none"]
  /\ fdCloses = [c \in 1 .. Len(lst) |-> 0]
  /\ wrap = [c \in 1 .. Len(lst) |-> "none"]
  /\ wrapFrees = [c \in 1 .. Len(lst) |-> 0]
  /\ arm = [c \in 1 .. Len(lst) |-> NoArm]
  /\ live = [c \in 1 .. Len(lst) |-> FALSE]
  /\ expired = [c \in 1 .. Len(lst) |-> FALSE]
  /\ epollSet = {}
  /\ events = <<>>
  /\ i = 1
  /\ exiting = 0
  /\ closing = 0
  /\ ret = NoRet
  /\ sends = [c \in 1 .. Len(lst) |-> 0]
  /\ waited = FALSE
  /\ drains = 0
  /\ retired = {}
  /\ fault = "none"

Init == lst \in Lists /\ InitRest

\* ----------------------------------------------------------- environment
\* An armed timer expires: its fd becomes readable.  A one-shot timer
\* (it_interval == 0) is disarmed by its expiry, a periodic one stays armed.
TimerExpire(c) ==
  /\ c \in Idx
  /\ pc \notin {"returned", "aborted"}
  /\ fdst[c] = "open"
  /\ live[c]
  /\ expired' = [expired EXCEPT ![c] = TRUE]
  /\ live' = [live EXCEPT ![c] = Periodic(arm[c])]
  /\ UNCHANGED <<lst, repeat, pc, ci, efd, efdCloses, evsState, evs, fdst,
                 fdCloses, wrap, wrapFrees, arm, epollSet, events, i, exiting,
                 closing, ret, sends, waited, drains, retired, fault>>

\* ------------------------------------------------------ tx_main, entry
\* Lines 132-144: epoll_create1, rx_events_init, return -1 without evs.
TxMainEnter(efdOk, evsOk) ==
  /\ pc = "start"
  /\ efd' = IF efdOk THEN "open" ELSE "invalid"
  /\ IF evsOk
     THEN /\ evsState' = "live"
          /\ pc' = NextAdmitPc(1)
          /\ UNCHANGED <<ret, fault>>
     ELSE /\ ret' = -1
          /\ fault' = "init"
          /\ pc' = "returned"
          /\ UNCHANGED evsState
  /\ UNCHANGED <<lst, repeat, ci, efdCloses, evs, fdst, fdCloses, wrap,
                 wrapFrees, arm, live, expired, epollSet, events, i, exiting,
                 closing, sends, waited, drains, retired>>

\* ------------------------------------------------------ add_packet_timer
\* Lines 46-117 for the command at ci, and the caller's test at line 148.
AddPacketTimer(outcome) ==
  /\ pc = "admit"
  /\ outcome = "ok" => efd = "open"
  /\ LET c == ci
         created == outcome \notin {"malloc_fail", "create_fail"}
         added == outcome \in {"settime_fail", "ctl_fail", "ok"}
         armed == outcome \in {"ctl_fail", "ok"}
         a == ArmParams(lst[c].timeout, repeat[c])
     IN /\ wrap' = [wrap EXCEPT ![c] =
                      IF outcome = "malloc_fail" THEN "none"
                      ELSE IF outcome = "ok" THEN "live" ELSE "freed"]
        /\ wrapFrees' = [wrapFrees EXCEPT ![c] =
                           IF outcome \in {"malloc_fail", "ok"} THEN @ ELSE @ + 1]
        /\ fdst' = [fdst EXCEPT ![c] = IF created THEN "open" ELSE @]
        /\ evs' = IF added THEN rx_events_add(evs, c) ELSE evs
        /\ repeat' = [repeat EXCEPT ![c] = IF added THEN AdmitRepeat(@) ELSE @]
        /\ arm' = [arm EXCEPT ![c] = IF armed THEN a ELSE @]
        /\ live' = [live EXCEPT ![c] = armed /\ Armed(a)]
        /\ epollSet' = IF outcome = "ok" THEN epollSet \cup {c} ELSE epollSet
  /\ pc' = AfterAdmitPc(outcome = "ok", ci + 1)
  /\ IF outcome = "ok"
     THEN /\ ci' = ci + 1
          /\ UNCHANGED fault
     ELSE /\ fault' = "admit"
          /\ UNCHANGED ci
  /\ UNCHANGED <<lst, efd, efdCloses, evsState, fdCloses, expired, events, i,
                 exiting, closing, ret, sends, waited, drains, retired>>

\* --------------------------------------------------- rx_events_free_all
\* Lines 119-128.  An item whose wrapper was already freed (dangling
\* rx_item->value) is read after free: close() acts on the timer fd only
\* for the items in good (the stale bytes still held the fd), and free() is
\* issued a second time on every such wrapper.
FreeAllClosed(good) ==
  {c \in Range(evs) : wrap[c] = "live" \/ c \in good}

Dangling == {c \in Range(evs) : wrap[c] = "freed"}

RxEventsFreeAll(good) ==
  /\ fdst' = [c \in Idx |-> IF c \in FreeAllClosed(good) /\ fdst[c] = "open"
                            THEN "closed" ELSE fdst[c]]
  /\ fdCloses' = [c \in Idx |-> IF c \in FreeAllClosed(good)
                                THEN fdCloses[c] + 1 ELSE fdCloses[c]]
  /\ wrap' = [c \in Idx |-> IF c \in Range(evs) THEN "freed" ELSE wrap[c]]
  /\ wrapFrees' = [c \in Idx |-> IF c \in Range(evs)
                                 THEN wrapFrees[c] + 1 ELSE wrapFrees[c]]
  /\ live' = [c \in Idx |-> live[c] /\ c \notin FreeAllClosed(good)]
  /\ epollSet' = epollSet \ FreeAllClosed(good)
  /\ evs' = <<>>
  /\ evsState' = "freed"

CloseEfd ==
  /\ efd' = IF efd = "open" THEN "closed" ELSE efd
  /\ efdCloses' = IF efd \in {"open", "closed"} THEN efdCloses + 1 ELSE efdCloses

\* The items rx_events_free_all has closed and freed when the second free()
\* of the first dangling wrapper aborts the process: the walk of lines
\* 121-126 goes from the head, so these are the items in front of it.
BeforeDangling ==
  {evs[k] : k \in {j \in 1 .. Len(evs) :
                     \A h \in 1 .. j : wrap[evs[h]] # "freed"}}

FirstDangling ==
  {evs[k] : k \in {j \in 1 .. Len(evs) :
                     /\ wrap[evs[j]] = "freed"
                     /\ \A h \in 1 .. j - 1 : wrap[evs[h]] # "freed"}}

\* rx_events_free_all cut short by the abort: the items in front are torn
\* down, the close() of the dangling item has been issued (on the timer fd
\* if the item is in good), its second free() does not return.
RxEventsFreeAllAborted(good) ==
  LET closed == BeforeDangling \cup (FirstDangling \cap good)
  IN /\ fdst' = [c \in Idx |-> IF c \in closed /\ fdst[c] = "open"
                               THEN "closed" ELSE fdst[c]]
     /\ fdCloses' = [c \in Idx |-> IF c \in closed
                                   THEN fdCloses[c] + 1 ELSE fdCloses[c]]
     /\ wrap' = [c \in Idx |-> IF c \in BeforeDangling THEN "freed" ELSE wrap[c]]
     /\ wrapFrees' = [c \in Idx |-> IF c \in BeforeDangling
                                    THEN wrapFrees[c] + 1 ELSE wrapFrees[c]]
     /\ live' = [c \in Idx |-> live[c] /\ c \notin closed]
     /\ epollSet' = epollSet \ closed
     /\ UNCHANGED <<evs, evsState>>

\* Lines 148-152: admission failed; close(efd), rx_events_free_all, return -1.
\* The second free() of a dangling wrapper may also abort the process.
AdmitFailTeardown(good, abort) ==
  /\ pc = "admit_failed"
  /\ good \subseteq Dangling
  /\ abort => Dangling # {}
  /\ CloseEfd
  /\ IF abort
     THEN /\ pc' = "aborted"
          /\ RxEventsFreeAllAborted(good)
          /\ UNCHANGED ret
     ELSE /\ RxEventsFreeAll(good)
          /\ ret' = -1
          /\ pc' = "returned"
  /\ UNCHANGED <<lst, repeat, ci, arm, expired, events, i, exiting, closing,
                 sends, waited, drains, retired, fault>>

\* ------------------------------------------------------- tx_main, loop
\* Line 156: the while condition; a true condition enters epoll_wait.
LoopCheck ==
  /\ pc = "loop"
  /\ IF LoopContinues(evs, exiting)
     THEN /\ pc' = "wait"
          /\ waited' = TRUE
     ELSE /\ pc' = "teardown"
          /\ UNCHANGED waited
  /\ UNCHANGED <<lst, repeat, ci, efd, efdCloses, evsState, evs, fdst,
                 fdCloses, wrap, wrapFrees, arm, live, expired, epollSet,
                 events, i, exiting, closing, ret, sends, drains, retired,
                 fault>>

Ready == {c \in epollSet : fdst[c] = "open" /\ expired[c]}

\* Lines 157-163: epoll_wait (no timeout) returns the ready fds, or fails.
EpollWaitReturn(ok, batch) ==
  /\ pc = "wait"
  /\ IF ok
     THEN /\ efd = "open"
          /\ Ready # {}
          /\ batch \in Batches(Ready)
          /\ events' = batch
          /\ i' = 1
          /\ pc' = "send"
          /\ UNCHANGED <<exiting, fault>>
     ELSE /\ batch = <<>>
          /\ exiting' = WaitFailExiting(exiting)
          /\ fault' = "wait"
          /\ pc' = "teardown"
          /\ UNCHANGED <<events, i>>
  /\ UNCHANGED <<lst, repeat, ci, efd, efdCloses, evsState, evs, fdst,
                 fdCloses, wrap, wrapFrees, arm, live, expired, epollSet,
                 closing, ret, sends, waited, drains, retired>>

\* Line 165: the delivery tag and the rx_event it names are non-NULL.
Null == 0
Resolves(tag) == tag # Null /\ wrap[tag] # "none"

\* Where the for loop goes after an entry: next entry or the while test.
NextEntryPc == IF i + 1 <= Len(events) THEN "send" ELSE "loop"

\* The record of one more call of the sender, line 167.  The code keeps no
\* count and a command with repeat < 0 is sent for as long as its sender
\* reports no error, so the record stops counting at MaxSends; a finite
\* schedule makes at most MaxRepeat < MaxSends calls and is counted exactly.
CountSend(n) == IF n < MaxSends THEN n + 1 ELSE MaxSends

\* Lines 164-172 and 195-198: resolve the tag, invoke the sender.
SendStep(sendOk) ==
  /\ pc = "send"
  /\ LET c == events[i]
     IN IF ~Resolves(c)
        THEN /\ exiting' = 1
             /\ fault' = "resolve"
             /\ pc' = "loop"
             /\ UNCHANGED sends
        ELSE /\ sends' = [sends EXCEPT ![c] = CountSend(@)]
             /\ IF sendOk
                THEN /\ pc' = "counter"
                     /\ UNCHANGED <<exiting, fault>>
                ELSE /\ exiting' = SendFailExiting(exiting)
                     /\ fault' = "send"
                     /\ pc' = "loop"
  /\ drains' = 0
  /\ UNCHANGED <<lst, repeat, ci, efd, efdCloses, evsState, evs, fdst,
                 fdCloses, wrap, wrapFrees, arm, live, expired, epollSet,
                 events, i, closing, ret, waited, retired>>

\* Lines 173-183: update the counter; at zero remove the item from the
\* registry, deregister the fd from epoll and set closing.
CounterStep(delOk) ==
  /\ pc = "counter"
  /\ LET c == events[i]
     IN /\ repeat' = [repeat EXCEPT ![c] = PostSendRepeat(@)]
        /\ IF Retires(repeat[c])
           THEN /\ evs' = RetireRegistry(evs, c)
                /\ retired' = retired \cup {c}
                /\ IF delOk
                   THEN /\ epollSet' = epollSet \ {c}
                        /\ closing' = 1
                        /\ pc' = AfterCounterPc
                        /\ UNCHANGED <<exiting, fault>>
                   ELSE /\ exiting' = 1
                        /\ fault' = "del"
                        /\ pc' = "loop"
                        /\ UNCHANGED <<epollSet, closing>>
           ELSE /\ delOk
                /\ pc' = AfterCounterPc
                /\ UNCHANGED <<evs, retired, epollSet, closing, exiting, fault>>
  /\ UNCHANGED <<lst, ci, efd, efdCloses, evsState, fdst, fdCloses, wrap,
                 wrapFrees, arm, live, expired, events, i, ret, sends, waited,
                 drains>>

\* Lines 185-189: read the expiration counter of the timer fd.
DrainStep(readOk) ==
  /\ pc = "drain"
  /\ LET c == events[i]
     IN /\ drains' = drains + 1
        /\ IF readOk
           THEN /\ expired' = [expired EXCEPT ![c] = FALSE]
                /\ pc' = "close"
                /\ UNCHANGED <<exiting, fault>>
           ELSE /\ exiting' = DrainFailExiting(exiting)
                /\ fault' = "read"
                /\ pc' = "loop"
                /\ UNCHANGED expired
  /\ UNCHANGED <<lst, repeat, ci, efd, efdCloses, evsState, evs, fdst,
                 fdCloses, wrap, wrapFrees, arm, live, epollSet, events, i,
                 closing, ret, sends, waited, retired>>

\* Lines 190-194 and the i++ of line 163: close and free when closing is set.
CloseStep ==
  /\ pc = "close"
  /\ LET c == events[i]
     IN IF closing = 1
        THEN /\ fdst' = [fdst EXCEPT ![c] = "closed"]
             /\ fdCloses' = [fdCloses EXCEPT ![c] = @ + 1]
             /\ wrap' = [wrap EXCEPT ![c] = "freed"]
             /\ wrapFrees' = [wrapFrees EXCEPT ![c] = @ + 1]
             /\ live' = [live EXCEPT ![c] = FALSE]
             /\ epollSet' = epollSet \ {c}
             /\ closing' = ClosingAfterClose(closing)
        ELSE UNCHANGED <<fdst, fdCloses, wrap, wrapFrees, live, epollSet,
                         closing>>
  /\ i' = i + 1
  /\ pc' = NextEntryPc
  /\ UNCHANGED <<lst, repeat, ci, efd, efdCloses, evsState, evs, arm, expired,
                 events, exiting, ret, sends, waited, drains, retired, fault>>

\* Lines 202-205: close(efd), rx_events_free_all, return exiting.
ExitTeardown ==
  /\ pc = "teardown"
  /\ CloseEfd
  /\ RxEventsFreeAll({})
  /\ ret' = exiting
  /\ pc' = "returned"
  /\ UNCHANGED <<lst, repeat, ci, arm, expired, events, i, exiting, closing,
                 sends, waited, drains, retired, fault>>

\* ------------------------------------------------------- specification
Program ==
  \/ \E efdOk, evsOk \in BOOLEAN : TxMainEnter(efdOk, evsOk)
  \/ \E outcome \in AdmitOutcomes : AddPacketTimer(outcome)
  \/ \E good \in SUBSET Dangling, abort \in BOOLEAN : AdmitFailTeardown(good, abort)
  \/ LoopCheck
  \/ \E ok \in BOOLEAN, batch \in Batches(Ready) \cup {<<>>} : EpollWaitReturn(ok, batch)
  \/ \E sendOk \in BOOLEAN : SendStep(sendOk)
  \/ \E delOk \in BOOLEAN : CounterStep(delOk)
  \/ \E readOk \in BOOLEAN : DrainStep(readOk)
  \/ CloseStep
  \/ ExitTeardown

Timers == \E c \in Idx : TimerExpire(c)

Next == Program \/ Timers

Spec == Init /\ [][Next]_vars

\* A run of finite schedules: every command has repeat >= 0.  The code runs
\* on whenever its next step can succeed (with an invalid efd, admission can
\* only fail, and does), and every armed timer expires.
InitLive == Init /\ \A c \in 1 .. Len(lst) : lst[c].repeat >= 0

Progress ==
  \/ TxMainEnter(TRUE, TRUE)
  \/ \E outcome \in AdmitOutcomes :
        (outcome = "ok" \/ efd = "invalid") /\ AddPacketTimer(outcome)
  \/ \E good \in SUBSET Dangling, abort \in BOOLEAN : AdmitFailTeardown(good, abort)
  \/ LoopCheck
  \/ \E batch \in Batches(Ready) : EpollWaitReturn(TRUE, batch)
  \/ SendStep(TRUE)
  \/ CounterStep(TRUE)
  \/ DrainStep(TRUE)
  \/ CloseStep
  \/ ExitTeardown

LiveSpec ==
  /\ InitLive
  /\ [][Next]_vars
  /\ WF_vars(Progress)
  /\ \A c \in 1 .. MaxCmds : WF_vars(TimerExpire(c))

\* Runs over short lists whose timeouts cover negative, zero and positive
\* values, for the arm parameters add_packet_timer computes.
MaxArmCmds == 1
MaxArmTimeout == 2
ArmCommands == [timeout : (-MaxArmTimeout) .. MaxArmTimeout, repeat : Repeats]
ArmLists == UNION {[1 .. n -> ArmCommands] : n \in 0 .. MaxArmCmds}
InitArm == lst \in ArmLists /\ InitRest
ArmSpec == InitArm /\ [][Next]_vars

\* ------------------------------------------------------------- helpers
Admitted(c) == c \in Idx /\ c < ci
NoFault == fault = "none"
Dispatching(c) == pc \in {"send", "counter", "drain", "close"} /\ events[i] = c
AtCounter(c) == pc = "counter" /\ events[i] = c
Returned == pc = "returned"
TypeOK ==
  /\ pc \in {"start", "admit", "admit_failed", "loop", "wait", "send",
             "counter", "drain", "close", "teardown", "returned", "aborted"}
  /\ exiting \in {0, 1}
  /\ closing \in {0, 1}
  /\ ret \in {NoRet, 0, 1, -1}
  /\ Range(evs) \subseteq Idx
  /\ epollSet \subseteq Idx

\* ================================================================ claims

\* C1: a command admitted with repeat == N > 1, in a run where no step has
\* failed, is armed to fire immediately (initial delay 0 s + 1 ns, periodic),
\* has had at most N sends, keeps sends + repeat == N - 1 between firings
\* (N inside the counter update of its own firing) while it is unretired, is
\* retired exactly by the dispatch whose send was the N-th, and has had
\* exactly N sends when tx_main returns Success.
C1_RepeatManySendsExactlyN ==
  \A c \in Idx :
    (lst[c].repeat > 1 /\ Admitted(c) /\ NoFault) =>
      LET N == lst[c].repeat
      IN /\ arm[c].value_sec = 0 /\ arm[c].value_nsec = 1 /\ Periodic(arm[c])
         /\ sends[c] <= N
         /\ repeat[c] >= 0
         /\ c \notin retired =>
              /\ sends[c] + repeat[c] = (IF AtCounter(c) THEN N ELSE N - 1)
              /\ pc \notin {"teardown", "returned"} => c \in Range(evs)
         /\ c \in retired => (sends[c] = N /\ repeat[c] = 0 /\ c \notin Range(evs))
         /\ (Returned /\ ret = 0) => (c \in retired /\ sends[c] = N)

C1_Witness ==
  \E c \in Idx :
    /\ lst[c].repeat > 1 /\ NoFault /\ Returned /\ ret = 0
    /\ c \in retired /\ sends[c] = lst[c].repeat

\* C2: a command admitted with repeat == 0 or repeat == 1, in a run where no
\* step has failed, has had at most one send; once its single send has been
\* made the same dispatch removes it from the registry in its counter update,
\* it is never handed to the sender again, and on a Success return it has
\* had exactly one send.
C2_RepeatOnceSendsExactlyOne ==
  \A c \in Idx :
    (lst[c].repeat \in {0, 1} /\ Admitted(c) /\ NoFault) =>
      /\ sends[c] <= 1
      /\ repeat[c] = 0
      /\ (sends[c] = 1 /\ ~AtCounter(c)) => (c \in retired /\ c \notin Range(evs))
      /\ c \in retired =>
           /\ sends[c] = 1 /\ c \notin Range(evs) /\ c \notin epollSet
           /\ ~(pc = "send" /\ events[i] = c)
      /\ (sends[c] = 0 /\ pc \notin {"teardown", "returned"}) => c \in Range(evs)
      /\ (Returned /\ ret = 0) => (sends[c] = 1 /\ c \in retired)

C2_Witness ==
  \E c, d \in Idx :
    /\ lst[c].repeat = 0 /\ lst[d].repeat = 1 /\ NoFault
    /\ c \in retired /\ d \in retired /\ sends[c] = 1 /\ sends[d] = 1
    /\ Returned /\ ret = 0

\* C3: a command with repeat < 0 keeps its repeat counter unchanged through
\* admission and every dispatch, is never retired by the counter logic and
\* stays in the registry while the loop runs, so once it has been admitted
\* tx_main leaves the loop only with a fault and never returns Success.
C3_NegativeRepeatNeverRetires ==
  \A c \in Idx :
    lst[c].repeat < 0 =>
      /\ repeat[c] = lst[c].repeat
      /\ c \notin retired
      /\ Admitted(c) =>
           /\ pc \in {"admit", "loop", "wait", "send", "counter", "drain", "close"}
                => c \in Range(evs)
           /\ pc \in {"teardown", "admit_failed"} => (~NoFault /\ (pc = "teardown" => exiting = 1))
           /\ Returned => (ret # 0 /\ ~NoFault)

C3_Witness ==
  \E c \in Idx :
    /\ lst[c].repeat < 0 /\ sends[c] >= 3 /\ repeat[c] = lst[c].repeat
    /\ Returned /\ ret = 1 /\ fault = "send"

\* C4: once the sender has reported an error, exiting is set, the for loop
\* is left, no send is invoked and no wait call is made any more, tx_main
\* returns non-zero, and the return step closes and frees every event that
\* was still in the registry.
C4_SendFailureHalts ==
  [][fault' = "send" =>
       /\ exiting' = 1
       /\ pc' \in {"loop", "teardown", "returned"}
       /\ fault = "send" => (sends' = sends /\ waited' = waited)
       /\ pc' = "returned" =>
            /\ ret' # 0 /\ ret' # NoRet
            /\ evs' = <<>>
            /\ \A c \in Range(evs) : fdst'[c] = "closed" /\ wrap'[c] = "freed"]_vars

C4_Witness ==
  /\ fault = "send" /\ Returned /\ ret = 1
  /\ i < Len(events)
  /\ \E c \in Idx : fdst[c] = "closed" /\ c \notin retired

\* C5: when tx_main returns after an admission failure, whichever step of
\* add_packet_timer failed, no timer handle that was created is still open.
C5_AdmissionFailureLeaksNoHandle ==
  (Returned /\ fault = "admit") => \A c \in Idx : fdst[c] # "open"

\* C6: when tx_main returns after a fatal condition of the wait loop (wait,
\* send, deregistration, drain or resolution failure), every timer handle
\* created during admission has been closed, also the handle of an event
\* already removed from the registry.
LoopFaults == {"wait", "send", "del", "read", "resolve"}
C6_FailedRunReleasesEveryHandle ==
  (Returned /\ fault \in LoopFaults) => \A c \in Idx : fdst[c] # "open"

\* C7 as stated: when tx_main returns, it returns 0, 1 or -1, and it returns
\* 0 exactly when every command was admitted, no wait, send, deregistration,
\* drain or resolution step failed, and every admitted event was retired by
\* the counter logic.
C7_SuccessIffAdmittedAndRetired ==
  Returned =>
    /\ ret \in {0, 1, -1}
    /\ ret = 0 <=> /\ \A c \in Idx : Admitted(c)
                   /\ fault \notin LoopFaults
                   /\ retired = Idx

\* C7 as amended: when tx_main returns, it returns 0, 1 or -1, and it returns
\* 0 exactly when the registry was created, the admission loop ran to
\* completion (every command admitted), no wait, send, deregistration, drain
\* or resolution step failed, and every admitted event was retired by the
\* counter logic.
AdmissionDone == evsState # "none" /\ ci = Len(lst) + 1
C7_SuccessIffAllRetired ==
  Returned =>
    /\ ret \in {0, 1, -1}
    /\ ret = 0 <=> (AdmissionDone /\ fault \notin LoopFaults /\ retired = Idx)

C7_Witness ==
  /\ Returned /\ ret = 0 /\ Len(lst) = MaxCmds /\ retired = Idx
  /\ \E c \in Idx : lst[c].repeat > 1

\* C8: with every command's repeat >= 0, timers that eventually expire and
\* are delivered, and code that runs on, a run in which no step fails
\* eventually has tx_main return 0 with the registry emptied by retirement
\* of every event.
C8_FiniteSchedulesTerminate ==
  <>(~NoFault \/ (Returned /\ ret = 0 /\ evs = <<>> /\ retired = Idx))

C8_Witness ==
  /\ NoFault /\ Returned /\ ret = 0 /\ Len(lst) = MaxCmds /\ retired = Idx
  /\ \A c \in Idx : sends[c] = (IF lst[c].repeat = 0 THEN 1 ELSE lst[c].repeat)
  /\ \E c \in Idx : lst[c].repeat = MaxRepeat

\* C9 as stated: for an empty command list the admission loop and the wait
\* loop are skipped (add_packet_timer is never entered, epoll_wait is never
\* called, no batch is dispatched) and tx_main returns 0.
C9_EmptyListAlwaysSuccess ==
  lst = <<>> =>
    /\ ~waited
    /\ pc \notin {"admit", "admit_failed", "wait", "send", "counter", "drain", "close"}
    /\ events = <<>> /\ evs = <<>> /\ epollSet = {}
    /\ Returned => ret = 0

\* C9 as amended: for an empty command list the admission loop and the wait
\* loop are skipped (add_packet_timer is never entered, epoll_wait is never
\* called, no batch is dispatched); tx_main returns 0 when the registry was
\* created and -1 when it was not.
C9_EmptyListReturnsSuccess ==
  lst = <<>> =>
    /\ ~waited
    /\ pc \notin {"admit", "admit_failed", "wait", "send", "counter", "drain", "close"}
    /\ events = <<>> /\ evs = <<>> /\ epollSet = {}
    /\ (Returned /\ evsState # "none") => ret = 0
    /\ (Returned /\ evsState = "none") => ret = -1
    /\ pc = "teardown" => exiting = 0

C9_Witness == lst = <<>> /\ Returned /\ ret = 0 /\ ~waited

\* C10 as stated: when the wait loop stops with events still in the
\* registry, the cause is a send, wait, drain or resolution failure.
C10_OnlyFourFatalConditions ==
  (pc = "teardown" /\ evs # <<>>) => fault \in {"send", "wait", "read", "resolve"}

\* C10 as amended: when the wait loop stops with events still in the
\* registry, the cause is a send, wait, drain or resolution failure or a
\* failure to deregister a retiring timer from the multiplexer.
C10_OnlyFiveFatalConditions ==
  (pc = "teardown" /\ evs # <<>>) =>
     (fault \in {"send", "wait", "read", "resolve", "del"} /\ exiting = 1)

C10_Witness ==
  pc = "teardown" /\ evs # <<>> /\ fault = "del" /\ exiting = 1

\* C11: once admission of a command has failed, tx_main returns -1 without
\* an epoll_wait call and without a send for any command, also not for the
\* commands admitted before the failing one.
C11_AdmissionFailureSendsNothing ==
  fault = "admit" =>
    /\ ~waited
    /\ \A c \in Idx : sends[c] = 0
    /\ pc \in {"admit_failed", "returned", "aborted"}
    /\ events = <<>>
    /\ Returned => ret = -1

C11_Witness ==
  /\ fault = "admit" /\ Returned /\ ret = -1 /\ ~waited
  /\ ci > 1 /\ Admitted(1) /\ sends[1] = 0 /\ fdst[1] = "closed"

\* C12: a wrapper is never freed while the registry holds an item naming it,
\* no wrapper is freed more than once and no timer handle is closed more
\* than once, in particular after arming or epoll registration failed.
C12_RemoveBeforeDestroy ==
  \A c \in Idx :
    /\ ~(wrap[c] = "freed" /\ c \in Range(evs))
    /\ wrapFrees[c] <= 1
    /\ fdCloses[c] <= 1

\* C13: at every epoll_wait call and at the start of the dispatch of every
\* ready entry, the events in the registry are exactly the events whose
\* timer fd is registered with the epoll fd.
C13_RegistryIffRegistered ==
  pc \in {"wait", "send"} =>
    /\ Range(evs) = epollSet
    /\ \A a, b \in 1 .. Len(evs) : a # b => evs[a] # evs[b]
    /\ \A c \in epollSet : fdst[c] = "open"

C13_Witness ==
  /\ pc = "send" /\ i > 1 /\ retired # {} /\ evs # <<>>
  /\ Range(evs) = epollSet /\ events[i - 1] \in retired

\* C14: in every step every repeat counter stays the same or drops by one,
\* a counter that started non-negative stays non-negative, and a counter
\* that started negative keeps its value.
C14_RepeatMonotone ==
  [][\A c \in Idx :
       /\ repeat'[c] <= repeat[c]
       /\ repeat'[c] >= repeat[c] - 1
       /\ lst[c].repeat >= 0 => (repeat[c] >= 0 /\ repeat'[c] >= 0)
       /\ lst[c].repeat < 0 => repeat'[c] = lst[c].repeat]_vars

C14_Witness ==
  \E c, d \in Idx :
    /\ lst[c].repeat = MaxRepeat /\ repeat[c] = 0 /\ c \in retired
    /\ lst[d].repeat < 0 /\ repeat[d] = lst[d].repeat /\ sends[d] >= 2

\* C15: in a dispatch that retires its event, the send comes first, then the
\* removal from the registry and the deregistration from epoll, then the one
\* read of the expiration counter, and only then the close of the handle and
\* the free of the wrapper: the dispatch closes a handle only when it is
\* already out of the registry, deregistered and drained.
C15_RetireOrder ==
  [][/\ pc = "counter" =>
          (sends[events[i]] >= 1 /\ drains = 0 /\ events[i] \in Range(evs)
           /\ events[i] \in epollSet /\ fdst[events[i]] = "open")
     /\ (pc = "drain" /\ closing = 1) =>
          (drains = 0 /\ events[i] \in retired /\ events[i] \notin Range(evs)
           /\ events[i] \notin epollSet /\ fdst[events[i]] = "open"
           /\ wrap[events[i]] = "live")
     /\ \A c \in Idx :
          (pc \in {"send", "counter", "drain", "close"}
           /\ (fdst[c] # fdst'[c] \/ wrap[c] # wrap'[c])) =>
             /\ pc = "close" /\ c = events[i] /\ closing = 1
             /\ sends[c] >= 1 /\ c \in retired
             /\ c \notin Range(evs) /\ c \notin epollSet
             /\ drains = 1
             /\ fdst[c] = "open" /\ fdst'[c] = "closed"
             /\ wrap[c] = "live" /\ wrap'[c] = "freed"]_vars

C15_Witness ==
  /\ pc \in {"send", "loop"} /\ i > 1 /\ NoFault
  /\ fdst[events[i - 1]] = "closed" /\ wrap[events[i - 1]] = "freed"
  /\ events[i - 1] \in retired /\ drains = 1

\* C16 as stated: every dispatch whose send succeeded has read the timer's
\* expiration counter exactly once when the for loop is left or moves on.
C16_DrainedInEveryDispatch ==
  /\ (pc = "loop" /\ waited /\ fault \notin {"send", "resolve"}) => drains = 1
  /\ (pc = "send" /\ i > 1) => drains = 1

\* C16 as amended: every dispatch whose send succeeded and whose epoll
\* deregistration, if the firing retired the event, did not fail has read
\* the expiration counter exactly once, before the close and before the next
\* entry or the while test, retiring or not; a failed read sets exiting and
\* makes tx_main return 1.
C16_DrainedUnlessDelFailed ==
  /\ (pc = "loop" /\ waited /\ fault \notin {"send", "resolve", "del"}) => drains = 1
  /\ (pc = "loop" /\ fault = "del") => drains = 0
  /\ (pc = "send" /\ i > 1) => drains = 1
  /\ pc = "close" => drains = 1
  /\ pc \in {"counter", "drain"} => drains = 0
  /\ fault = "read" =>
       /\ drains = 1 /\ exiting = 1
       /\ pc \in {"loop", "teardown", "returned"}
       /\ Returned => ret = 1

C16_Witness ==
  /\ fault = "read" /\ Returned /\ ret = 1 /\ drains = 1
  /\ \E c \in Idx : c \notin retired /\ sends[c] >= 2

\* C17: the itimerspec an admitted timer was armed with follows the policy:
\* repeat 0 or 1 gives an initial delay of max(timeout, 0) seconds (plus the
\* one nanosecond that keeps it_value non-zero) and no interval; repeat > 1
\* or < 0 gives the smallest positive initial delay (0 s, 1 ns) and an
\* interval of timeout seconds if timeout > 0, else MIN_INTERVAL_NSEC; the
\* initial delay is never zero, so the timer is armed.
C17_ArmPolicy ==
  \A c \in Idx :
    Admitted(c) =>
      LET t == lst[c].timeout
          r == lst[c].repeat
          a == arm[c]
      IN /\ r \in {0, 1} =>
              /\ a.value_sec = (IF t > 0 THEN t ELSE 0)
              /\ a.value_nsec = 1
              /\ a.interval_sec = 0 /\ a.interval_nsec = 0
         /\ (r > 1 \/ r < 0) =>
              /\ a.value_sec = 0 /\ a.value_nsec = 1
              /\ t > 0 => (a.interval_sec = t /\ a.interval_nsec = 0)
              /\ t <= 0 => (a.interval_sec = 0 /\ a.interval_nsec = MIN_INTERVAL_NSEC)
              /\ (a.interval_sec > 0 \/ a.interval_nsec > 0)
         /\ a.value_sec >= 0 /\ a.value_nsec >= 0
         /\ (a.value_sec > 0 \/ a.value_nsec > 0)

C17_Witness ==
  \E c \in Idx :
    /\ Admitted(c) /\ lst[c].timeout = 0 /\ lst[c].repeat = MaxRepeat
    /\ arm[c].interval_nsec = MIN_INTERVAL_NSEC /\ sends[c] = MaxRepeat

\* C18: when tx_main returns, on whichever path, an epoll fd that was
\* created at entry has been closed exactly once, and a registry that was
\* created has been torn down.
C18_EveryReturnReleasesEfd ==
  Returned =>
    /\ efd # "open"
    /\ efd = "closed" => efdCloses = 1
    /\ evsState # "live"

\* C19: at the start of the dispatch of every ready entry the entry's tag
\* names an item still in the registry whose wrapper is allocated and not
\* freed and whose timer fd is open, and no entry of the batch is delivered
\* twice.
C19_DispatchedEntryIsLive ==
  /\ pc = "send" =>
       /\ i \in 1 .. Len(events)
       /\ Resolves(events[i])
       /\ events[i] \in Range(evs)
       /\ wrap[events[i]] = "live"
       /\ fdst[events[i]] = "open"
       /\ events[i] \notin retired
  /\ pc \in {"send", "counter", "drain", "close"} =>
       \A a, b \in 1 .. Len(events) : a # b => events[a] # events[b]
  /\ fault # "resolve"

C19_Witness ==
  /\ pc = "send" /\ i = 2 /\ events[1] \in retired /\ wrap[events[1]] = "freed"
  /\ events[2] \in Range(evs) /\ wrap[events[2]] = "live"

\* C20: closing is 0 whenever a dispatch starts and is set only between the
\* deregistration and the close of the event the same dispatch removed at
\* repeat == 0, so the dispatch loop never closes the handle or frees the
\* wrapper of an event that is still in the registry.
C20_ClosingNeverCarriesOver ==
  [][/\ pc \in {"start", "admit", "admit_failed", "wait", "send", "counter"}
          => closing = 0
     /\ closing = 1 =>
          /\ pc \in {"drain", "close", "loop", "teardown", "returned"}
          /\ events[i] \in retired /\ repeat[events[i]] = 0
          /\ events[i] \notin Range(evs)
     /\ pc = "close" =>
          /\ pc' # pc => closing' = 0
          /\ \A c \in Range(evs) : fdst'[c] = fdst[c] /\ wrap'[c] = wrap[c]
          /\ events[i] \in Range(evs) => closing = 0]_vars

C20_Witness ==
  /\ pc = "send" /\ i = 2 /\ closing = 0 /\ NoFault
  /\ events[1] \in retired /\ fdst[events[1]] = "closed"
  /\ events[2] \in Range(evs) /\ repeat[events[2]] > 0
====
